---- MODULE Spec2Model ----
(***************************************************************************)
(* A model of lice (src/lice/core.py): the template loaders, the variable  *)
(* extractor, the substitution engine and the command-line driver.         *)
(*                                                                         *)
(* Text is a sequence of characters, each character a one-character        *)
(* string; "xFF" stands for a byte that is not valid UTF-8.  Longer        *)
(* strings occur only as the fixed parts of messages.                      *)
(***************************************************************************)
EXTENDS Integers, Sequences, FiniteSets, TLC

VARIABLES
    pc,         \* position of the caller / of main()
    files,      \* the filesystem: absolute path -> bytes of the file
    resources,  \* the bundled resources: resource name -> bytes
    args,       \* the parsed arguments, or the arguments of the library call
    template,   \* the template StringIO: [value, closed]
    context,    \* the substitution context: variable name -> value
    result,     \* outcome of the last library call
    stdout,     \* what was written to sys.stdout
    stderr,     \* what was written to sys.stderr
    exitcode    \* the process's exit status

vars == <<pc, files, resources, args, template, context, result, stdout, stderr, exitcode>>

(***************************************************************************)
(* Bounds of the model.                                                    *)
(***************************************************************************)
MaxRenderPieces == 3
MaxLoadPieces == 3
MaxMainPieces == 2

(***************************************************************************)
(* Characters and strings.                                                 *)
(***************************************************************************)
\* The characters of the model in code-point order.
CodeOrder ==
    << "\n", " ", "-", "0", "1", "2", "3", "4", "5", "6", "7", "8", "9", "A", "_",
       "a", "b", "c", "d", "e", "f", "g", "h", "i", "j", "k", "l", "m", "n",
       "o", "p", "q", "r", "s", "t", "u", "v", "w", "x", "y", "z", "{", "}" >>

Ord(c) == CHOOSE i \in 1..Len(CodeOrder) : CodeOrder[i] = c

\* The characters \w matches.
WordChars ==
    { "0", "1", "2", "3", "4", "5", "6", "7", "8", "9", "A", "_",
      "a", "b", "c", "d", "e", "f", "g", "h", "i", "j", "k", "l", "m", "n",
      "o", "p", "q", "r", "s", "t", "u", "v", "w", "x", "y", "z" }

\* Python's str comparison: by code point, a proper prefix first.
StrLess(a, b) ==
    \E i \in 1..(Len(b)) :
        /\ i <= Len(a) + 1
        /\ SubSeq(a, 1, i - 1) = SubSeq(b, 1, i - 1)
        /\ \/ i = Len(a) + 1
           \/ i <= Len(a) /\ Ord(a[i]) < Ord(b[i])

StartsWithAt(text, i, pat) ==
    /\ i + Len(pat) - 1 <= Len(text)
    /\ SubSeq(text, i, i + Len(pat) - 1) = pat

RECURSIVE TextsOver(_, _)
\* Every concatenation of at most n of the pieces P.
TextsOver(P, n) ==
    IF n = 0 THEN { <<>> }
    ELSE LET S == TextsOver(P, n - 1) IN S \cup { s \o p : s \in S, p \in P }

K_year == << "y", "e", "a", "r" >>
K_organization == << "o", "r", "g", "a", "n", "i", "z", "a", "t", "i", "o", "n" >>
K_project == << "p", "r", "o", "j", "e", "c", "t" >>
K_foo == << "f", "o", "o" >>

\* "{{ %s }}" % key
placeholder(key) == << "{", "{", " " >> \o key \o << " ", "}", "}" >>

(***************************************************************************)
(* extract_vars                                                            *)
(***************************************************************************)
RECURSIVE WordEnd(_, _)
\* \w+ is greedy: the first position at or after j that holds no word character.
WordEnd(text, j) ==
    IF j <= Len(text) /\ text[j] \in WordChars THEN WordEnd(text, j + 1) ELSE j

\* r"\{\{ (?P<key>\w+) \}\}" tried at position i: the position after the match,
\* or 0 when it does not match there.
re_match_at(text, i) ==
    IF ~StartsWithAt(text, i, << "{", "{", " " >>) THEN 0
    ELSE LET k == WordEnd(text, i + 3)
         IN  IF k > i + 3 /\ StartsWithAt(text, k, << " ", "}", "}" >>) THEN k + 3 ELSE 0

RECURSIVE re_finditer(_, _)
\* The keys of the non-overlapping matches, left to right, from position pos.
re_finditer(text, pos) ==
    IF pos > Len(text) THEN <<>>
    ELSE LET e == re_match_at(text, pos)
         IN  IF e = 0 THEN re_finditer(text, pos + 1)
             ELSE << SubSeq(text, pos + 3, e - 4) >> \o re_finditer(text, e)

RECURSIVE sorted(_)
\* sorted(list(keys)) of a set of strings.
sorted(S) ==
    IF S = {} THEN <<>>
    ELSE LET m == CHOOSE x \in S : \A y \in S \ {x} : StrLess(x, y)
         IN  << m >> \o sorted(S \ {m})

\* A mutation: the keys in order of first appearance, not sorted.
RECURSIVE FirstSeen(_, _)
FirstSeen(ks, seen) ==
    IF ks = <<>> THEN <<>>
    ELSE IF Head(ks) \in seen THEN FirstSeen(Tail(ks), seen)
         ELSE << Head(ks) >> \o FirstSeen(Tail(ks), seen \cup {Head(ks)})

extract_vars_unsorted(value) == FirstSeen(re_finditer(value, 1), {})

\* extract_vars on the value of an open template.
extract_vars(value) ==
    LET ms == re_finditer(value, 1)
        keys == { ms[i] : i \in 1..Len(ms) }
    IN  sorted(keys)

(***************************************************************************)
(* generate_license                                                        *)
(***************************************************************************)
RECURSIVE str_replace(_, _, _)
\* content.replace(old, new): every non-overlapping occurrence, left to right.
str_replace(text, old, new) ==
    IF text = <<>> THEN <<>>
    ELSE IF StartsWithAt(text, 1, old)
         THEN new \o str_replace(SubSeq(text, Len(old) + 1, Len(text)), old, new)
         ELSE << Head(text) >> \o str_replace(Tail(text), old, new)

NoKey == <<>>

RECURSIVE subst_loop(_, _, _)
\* The for loop of generate_license over the remaining keys.
subst_loop(content, keys, ctx) ==
    IF keys = <<>> THEN [missing |-> NoKey, content |-> content]
    ELSE IF Head(keys) \notin DOMAIN ctx THEN [missing |-> Head(keys), content |-> content]
         ELSE subst_loop(str_replace(content, placeholder(Head(keys)), ctx[Head(keys)]),
                         Tail(keys), ctx)

ClosedMsg == << "I/O operation on closed file" >>
MissingMsg(key) == key \o << " is missing from the template context" >>

NoOut == [value |-> <<>>, closed |-> TRUE]
NoTemplate == [value |-> <<>>, closed |-> TRUE]

RECURSIVE subst_loop_skipping(_, _, _)
\* A mutation of the loop: a key the context lacks is passed over.
subst_loop_skipping(content, keys, ctx) ==
    IF keys = <<>> THEN content
    ELSE IF Head(keys) \notin DOMAIN ctx THEN subst_loop_skipping(content, Tail(keys), ctx)
         ELSE subst_loop_skipping(
                  str_replace(content, placeholder(Head(keys)), ctx[Head(keys)]),
                  Tail(keys), ctx)

\* A mutation: no check of the context, so a partly substituted text is returned.
generate_license_partial(tpl, ctx) ==
    IF tpl.closed
    THEN [exc |-> "ValueError", msg |-> ClosedMsg, out |-> NoOut,
          template |-> tpl, context |-> ctx]
    ELSE [exc |-> "", msg |-> <<>>,
          out |-> [value |-> subst_loop_skipping(tpl.value, extract_vars(tpl.value), ctx),
                   closed |-> FALSE],
          template |-> [tpl EXCEPT !.closed = TRUE], context |-> ctx]

\* A mutation: the template is closed before the loop, so also when a key is missing.
generate_license_close_first(tpl, ctx) ==
    IF tpl.closed
    THEN [exc |-> "ValueError", msg |-> ClosedMsg, out |-> NoOut,
          template |-> tpl, context |-> ctx]
    ELSE LET r == subst_loop(tpl.value, extract_vars(tpl.value), ctx)
         IN  IF r.missing # NoKey
             THEN [exc |-> "ValueError", msg |-> MissingMsg(r.missing), out |-> NoOut,
                   template |-> [tpl EXCEPT !.closed = TRUE], context |-> ctx]
             ELSE [exc |-> "", msg |-> <<>>,
                   out |-> [value |-> r.content, closed |-> FALSE],
                   template |-> [tpl EXCEPT !.closed = TRUE], context |-> ctx]

\* The outcome of a call: the exception raised ("" for none) with its message,
\* the StringIO returned, and the template and the context as the call leaves them.
generate_license(tpl, ctx) ==
    IF tpl.closed
    THEN [exc |-> "ValueError", msg |-> ClosedMsg, out |-> NoOut,
          template |-> tpl, context |-> ctx]
    ELSE LET r == subst_loop(tpl.value, extract_vars(tpl.value), ctx)
         IN  IF r.missing # NoKey
             THEN [exc |-> "ValueError", msg |-> MissingMsg(r.missing), out |-> NoOut,
                   template |-> tpl, context |-> ctx]
             ELSE [exc |-> "", msg |-> <<>>,
                   out |-> [value |-> r.content, closed |-> FALSE],
                   template |-> [tpl EXCEPT !.closed = TRUE], context |-> ctx]

(***************************************************************************)
(* The comment tables.                                                     *)
(***************************************************************************)
LANGS ==
    [ txt |-> "text", h |-> "c", hpp |-> "c", c |-> "c", cc |-> "c", cpp |-> "c",
      py |-> "unix", pl |-> "perl", sh |-> "unix", lua |-> "lua", rb |-> "ruby",
      js |-> "c", java |-> "java", f |-> "fortran", f90 |-> "fortran90",
      erl |-> "erlang", html |-> "html", css |-> "c", m |-> "c" ]

\* style -> << open marker, line prefix, close marker >>
LANG_CMT ==
    [ text |-> << <<>>, <<>>, <<>> >>,
      c |-> << << "/", "*" >>, << " ", "*" >>, << " ", "*", "/" >> >>,
      unix |-> << <<>>, << "#" >>, <<>> >>,
      lua |-> << << "-", "-", "[", "[" >>, <<>>, << "-", "-", "]", "]" >> >>,
      java |-> << << "/", "*", "*" >>, << " ", "*" >>, << " ", "*", "/" >> >>,
      perl |-> << << "=", "i", "t", "e", "m" >>, <<>>, << "=", "c", "u", "t" >> >>,
      ruby |-> << << "=", "b", "e", "g", "i", "n" >>, <<>>, << "=", "e", "n", "d" >> >>,
      fortran |-> << << "C" >>, << "C" >>, << "C" >> >>,
      fortran90 |-> << << "!", "*" >>, << "!", "*" >>, << "!", "*" >> >>,
      erlang |-> << << "%", "%" >>, << "%" >>, << "%", "%" >> >>,
      html |-> << << "<", "!", "-", "-" >>, <<>>, << "-", "-", ">" >> >> ]

(***************************************************************************)
(* Paths.  A path is its sequence of components; an absolute path starts   *)
(* with the component "/".                                                 *)
(***************************************************************************)
HOME == << "/", "home", "u" >>
CWD == << "/", "cwd" >>
\* os.environ, as far as paths use it.
ENVIRON == [ D |-> << "/", "d" >> ]

\* os.path.expanduser: a leading "~" becomes the home directory.
expanduser(p) == IF p # <<>> /\ Head(p) = "~" THEN HOME \o Tail(p) ELSE p

\* The components that spell a reference to an environment variable.
VarRefs == ("$D" :> "D") @@ ("$E" :> "E")

RECURSIVE expandvars(_)
\* os.path.expandvars: "$NAME" becomes the variable's value; unset names stay.
expandvars(p) ==
    IF p = <<>> THEN <<>>
    ELSE (IF Head(p) \in DOMAIN VarRefs /\ VarRefs[Head(p)] \in DOMAIN ENVIRON
          THEN ENVIRON[VarRefs[Head(p)]]
          ELSE << Head(p) >>) \o expandvars(Tail(p))

RECURSIVE normpath(_)
\* A "/" inside a path (an empty component) is dropped.
normpath(p) ==
    IF p = <<>> THEN <<>>
    ELSE IF Head(p) = "/" THEN normpath(Tail(p))
         ELSE << Head(p) >> \o normpath(Tail(p))

\* os.path.abspath: relative paths are joined to the working directory.
abspath(p) ==
    IF p # <<>> /\ Head(p) = "/" THEN << "/" >> \o normpath(Tail(p))
    ELSE << "/" >> \o normpath(CWD \o p)

clean_path(p) == abspath(expandvars(expanduser(p)))

\* os.path.exists(p): the operating system resolves p against the working
\* directory and expands nothing.
os_path_exists(p, fs) == abspath(p) \in DOMAIN fs

(***************************************************************************)
(* The loaders.                                                            *)
(***************************************************************************)
RECURSIVE readlines(_, _)
\* Iterating a binary file: each line ends after its "\n"; the last may lack one.
readlines(bytes, line) ==
    IF bytes = <<>> THEN (IF line = <<>> THEN <<>> ELSE << line >>)
    ELSE IF Head(bytes) = "\n"
         THEN << line \o << "\n" >> >> \o readlines(Tail(bytes), <<>>)
         ELSE readlines(Tail(bytes), line \o << Head(bytes) >>)

InvalidByte == "xFF"

\* line.decode("utf-8") succeeds iff no byte of the line is invalid.
decodable(line) == \A i \in 1..Len(line) : line[i] # InvalidByte
decode(line) == [i \in 1..Len(line) |-> line[i]]

RECURSIVE write_lines(_, _)
\* The loop over the lines: the prefix and a space, then the decoded line.
write_lines(lines, prefix) ==
    IF lines = <<>> THEN <<>>
    ELSE prefix \o << " " >> \o decode(Head(lines)) \o write_lines(Tail(lines), prefix)

\* What the body of the with statement does to the stream's bytes.
decorate(bytes, lang) ==
    IF lang \notin DOMAIN LANGS
    THEN [exc |-> "KeyError", template |-> NoTemplate]
    ELSE LET cmt == LANG_CMT[LANGS[lang]]
             lines == readlines(bytes, <<>>)
         IN  IF \E i \in 1..Len(lines) : ~decodable(lines[i])
             THEN [exc |-> "UnicodeDecodeError", template |-> NoTemplate]
             ELSE [exc |-> "",
                   template |->
                       [value |-> cmt[1] \o << "\n" >> \o write_lines(lines, cmt[2])
                                  \o cmt[3] \o << "\n" >>,
                        closed |-> FALSE]]

load_file_template(path, lang, fs) ==
    IF ~os_path_exists(path, fs)
    THEN [exc |-> "ValueError", template |-> NoTemplate]
    ELSE IF clean_path(path) \notin DOMAIN fs
         THEN [exc |-> "FileNotFoundError", template |-> NoTemplate]
         ELSE decorate(fs[clean_path(path)], lang)

\* 'template-%s-header.txt' if header else 'template-%s.txt', filled with the license.
resource_name(license, header) ==
    IF header THEN << "template-", license, "-header.txt" >>
    ELSE << "template-", license, ".txt" >>

load_package_template(license, lang, header, res) ==
    IF resource_name(license, header) \notin DOMAIN res
    THEN [exc |-> "FileNotFoundError", template |-> NoTemplate]
    ELSE decorate(res[resource_name(license, header)], lang)

(***************************************************************************)
(* The library called directly: a caller holds one template and calls      *)
(* extract_vars and generate_license on it, in any order, any number of    *)
(* times, with any context.                                                *)
(***************************************************************************)
V_2024 == << "2", "0", "2", "4" >>
V_Acme == << "A", "c", "m", "e" >>
V_lice == << "l", "i", "c", "e" >>

RenderPieces ==
    { placeholder(K_year), placeholder(K_organization),
      << "{", "{", "y", "e", "a", "r", "}", "}" >>, << "{" >> }

RenderTexts == TextsOver(RenderPieces, MaxRenderPieces)

\* Contexts a caller may pass: any subset of the keys, and a value that itself
\* spells a placeholder.
ContextOver(K, org) ==
    [k \in K |-> IF k = K_year THEN V_2024
                 ELSE IF k = K_organization THEN org
                 ELSE V_lice]

Contexts ==
    { ContextOver(K, org) : K \in SUBSET {K_year, K_organization},
                            org \in {V_Acme, placeholder(K_year)} }

EmptyContext == [k \in {} |-> <<>>]
NoArgs == [fn |-> "", template |-> NoTemplate, context |-> EmptyContext]
NoResult == [exc |-> "", msg |-> <<>>, keys |-> <<>>, out |-> NoOut]
Running == <<>>

Init ==
    /\ pc = "lib"
    /\ files = <<>>
    /\ resources = <<>>
    /\ args = NoArgs
    /\ template \in { [value |-> t, closed |-> FALSE] : t \in RenderTexts }
    /\ context = EmptyContext
    /\ result = NoResult
    /\ stdout = <<>>
    /\ stderr = <<>>
    /\ exitcode = Running

\* A call extract_vars(template): getvalue() raises on a closed StringIO.
CallExtractVars ==
    /\ pc = "lib"
    /\ args' = [fn |-> "extract_vars", template |-> template, context |-> context]
    /\ result' = IF template.closed
                 THEN [exc |-> "ValueError", msg |-> ClosedMsg, keys |-> <<>>, out |-> NoOut]
                 ELSE [exc |-> "", msg |-> <<>>, keys |-> extract_vars(template.value),
                       out |-> NoOut]
    /\ UNCHANGED <<pc, files, resources, template, context, stdout, stderr, exitcode>>

\* A call generate_license(template, ctx).
CallGenerateLicense ==
    /\ pc = "lib"
    /\ \E ctx \in Contexts :
          LET r == generate_license(template, ctx)
          IN  /\ args' = [fn |-> "generate_license", template |-> template, context |-> ctx]
              /\ result' = [exc |-> r.exc, msg |-> r.msg, keys |-> <<>>, out |-> r.out]
              /\ template' = r.template
              /\ context' = r.context
    /\ UNCHANGED <<pc, files, resources, stdout, stderr, exitcode>>

Next == CallExtractVars \/ CallGenerateLicense

Spec == Init /\ [][Next]_vars

(***************************************************************************)
(* Claims about extract_vars and generate_license (under Spec).            *)
(***************************************************************************)
Range(f) == { f[i] : i \in DOMAIN f }

\* The names that occur in the text as a token: word characters between
\* "{{ " and " }}".
TokenNames(text) ==
    { SubSeq(text, x[1], x[2]) :
        x \in { y \in (4..Len(text)) \X (4..Len(text)) :
                  /\ y[1] <= y[2]
                  /\ \A i \in y[1]..y[2] : text[i] \in WordChars
                  /\ SubSeq(text, y[1] - 3, y[1] - 1) = << "{", "{", " " >>
                  /\ StartsWithAt(text, y[2] + 1, << " ", "}", "}" >>) } }

GenerateCalled == args.fn = "generate_license" /\ ~args.template.closed
ExtractCalled == args.fn = "extract_vars" /\ ~args.template.closed

\* The variables of the template the call was given that its context lacks.
MissingKeys ==
    { k \in Range(extract_vars(args.template.value)) : k \notin DOMAIN args.context }

\* C1: whenever a variable extracted from the template is not a key of the context,
\* generate_license raises an error whose message names such a variable, and
\* returns no output at all.
C1_MissingVariableRaises ==
    (GenerateCalled /\ MissingKeys # {}) =>
        /\ result.exc = "ValueError"
        /\ \E k \in MissingKeys : result.msg = MissingMsg(k)
        /\ result.out = NoOut

\* A call whose context holds one of the template's two variables and lacks the other.
C1_Witness ==
    /\ GenerateCalled
    /\ Len(extract_vars(args.template.value)) = 2
    /\ Cardinality(MissingKeys) = 1
    /\ result.exc = "ValueError"

RECURSIVE SinglePass(_, _)
\* The text with every placeholder token of the original replaced by its value,
\* inserted text never scanned again.
SinglePass(text, ctx) ==
    IF text = <<>> THEN <<>>
    ELSE LET e == re_match_at(text, 1)
             key == SubSeq(text, 4, e - 4)
         IN  IF e # 0 /\ key \in DOMAIN ctx
             THEN ctx[key] \o SinglePass(SubSeq(text, e, Len(text)), ctx)
             ELSE << Head(text) >> \o SinglePass(Tail(text), ctx)

\* C2: generate_license performs no recursive expansion: a value inserted for one
\* variable is never itself scanned or replaced, so the output is the template
\* with each of its own placeholders replaced by its value.
C2_NoRecursiveExpansion ==
    (GenerateCalled /\ result.exc = "") =>
        result.out.value = SinglePass(args.template.value, args.context)

\* C5: extract_vars returns exactly the distinct names that occur in the text as a
\* token "{{ name }}", each once, in ascending order.
C5_ExtractVarsSortedSet ==
    ExtractCalled =>
        /\ result.exc = ""
        /\ \A i \in 1..Len(result.keys) : \A j \in 1..Len(result.keys) :
               i < j => StrLess(result.keys[i], result.keys[j])
        /\ Range(result.keys) = TokenNames(args.template.value)

\* A text whose first token is the name that sorts last, one name occurring twice.
C5_Witness ==
    /\ ExtractCalled
    /\ result.keys = << K_organization, K_year >>
    /\ re_finditer(args.template.value, 1) = << K_year, K_organization, K_year >>

\* C10: a successful generate_license closes the template, after which every
\* extract_vars or generate_license on it fails and leaves it as it is; a call that
\* fails for a missing variable leaves the template open and unchanged; the
\* context is as it was passed, whatever the outcome.
C10_TemplateLifecycle ==
    /\ args.fn = "generate_license" =>
          /\ context = args.context
          /\ template.value = args.template.value
          /\ args.template.closed => result.exc = "ValueError" /\ template = args.template
          /\ (~args.template.closed /\ result.exc = "") => template.closed
          /\ (~args.template.closed /\ result.exc # "") => ~template.closed
    /\ (args.fn = "extract_vars" /\ args.template.closed) => result.exc = "ValueError"
    /\ args.fn = "extract_vars" => template = args.template

\* A second generate_license on a template an earlier call rendered and closed.
C10_Witness ==
    /\ args.fn = "generate_license"
    /\ args.template.closed
    /\ result.exc = "ValueError"
    /\ template.closed


(***************************************************************************)
(* The loaders called directly: a caller loads one template from a         *)
(* filesystem or a bundle, by any path, license and language tag.          *)
(***************************************************************************)
LoadPieces == { << "x" >>, << "\n" >>, << InvalidByte >> }
LoadTexts == TextsOver(LoadPieces, MaxLoadPieces)

Paths ==
    { << "~", "t.txt" >>, << "$D", "t.txt" >>, << "$E", "t.txt" >>, << "t.txt" >>,
      << "/", "abs", "t.txt" >> }

\* The places a template file may be at: where a path leads after expansion, and
\* where it leads taken literally.
FilePlaces == { clean_path(p) : p \in Paths } \cup { abspath(p) : p \in Paths }

LangTags == DOMAIN LANGS \cup { "zz" }

NoFiles == [q \in {} |-> <<>>]

\* Filesystems holding at most one template file.
FileSystems(bytes) ==
    { NoFiles } \cup { [q \in {place} |-> bytes] : place \in FilePlaces }

\* Bundles holding the body template of a license, with or without a header template.
Bundles(license, bytes) ==
    { [n \in {resource_name(license, FALSE)} |-> bytes],
      [n \in {resource_name(license, FALSE), resource_name(license, TRUE)} |-> bytes] }

InitLoad ==
    /\ pc = "load"
    /\ \E bytes \in LoadTexts :
          /\ files \in FileSystems(bytes)
          /\ resources \in Bundles("mit", bytes)
    /\ args = NoArgs
    /\ template = NoTemplate
    /\ context = EmptyContext
    /\ result = NoResult
    /\ stdout = <<>>
    /\ stderr = <<>>
    /\ exitcode = Running

CallLoadFileTemplate ==
    /\ pc = "load"
    /\ \E path \in Paths, lang \in LangTags :
          LET r == load_file_template(path, lang, files)
          IN  /\ args' = [fn |-> "load_file_template", path |-> path, lang |-> lang,
                          license |-> "", header |-> FALSE]
              /\ result' = [exc |-> r.exc, msg |-> <<>>, keys |-> <<>>, out |-> NoOut]
              /\ template' = r.template
    /\ pc' = "loaded"
    /\ UNCHANGED <<files, resources, context, stdout, stderr, exitcode>>

CallLoadPackageTemplate ==
    /\ pc = "load"
    /\ \E lang \in LangTags, header \in BOOLEAN :
          LET r == load_package_template("mit", lang, header, resources)
          IN  /\ args' = [fn |-> "load_package_template", path |-> <<>>, lang |-> lang,
                          license |-> "mit", header |-> header]
              /\ result' = [exc |-> r.exc, msg |-> <<>>, keys |-> <<>>, out |-> NoOut]
              /\ template' = r.template
    /\ pc' = "loaded"
    /\ UNCHANGED <<files, resources, context, stdout, stderr, exitcode>>

NextLoad == CallLoadFileTemplate \/ CallLoadPackageTemplate

SpecLoad == InitLoad /\ [][NextLoad]_vars

(***************************************************************************)
(* Claims about the loaders (under SpecLoad).                              *)
(***************************************************************************)
Loaded ==
    /\ args.fn \in { "load_file_template", "load_package_template" }
    /\ result.exc = ""

\* The lines the loader read.
SourceLines ==
    readlines(IF args.fn = "load_file_template"
              THEN files[clean_path(args.path)]
              ELSE resources[resource_name(args.license, args.header)], <<>>)

Style == LANG_CMT[LANGS[args.lang]]

RECURSIVE PrefixedLines(_, _)
\* Each line after the prefix, and after one space when the prefix is not empty.
PrefixedLines(lines, prefix) ==
    IF lines = <<>> THEN <<>>
    ELSE prefix \o (IF prefix # <<>> THEN << " " >> ELSE <<>>) \o Head(lines)
         \o PrefixedLines(Tail(lines), prefix)

\* C3: both loaders emit each content line as the style's prefix, one space only if
\* the prefix is not empty, and the line; with an empty prefix the line is emitted
\* as it was read.
C3_SpaceOnlyAfterPrefix ==
    Loaded =>
        template.value = Style[1] \o << "\n" >> \o PrefixedLines(SourceLines, Style[2])
                         \o Style[3] \o << "\n" >>

NotFound == { "ValueError", "FileNotFoundError" }

\* C4: load_file_template fails with a not-found error if and only if the path,
\* after expansion of the home directory and of environment variables and made
\* absolute, does not exist.
C4_ExistenceOnResolvedPath ==
    args.fn = "load_file_template" =>
        (result.exc \in NotFound <=> clean_path(args.path) \notin DOMAIN files)

\* The loader's output with the open-marker line, the prefix and its space on each
\* content line, and the close-marker line removed.
StripDecoration(value, cmt) ==
    LET out == readlines(value, <<>>)
        n == Len(out)
        pfx == cmt[2] \o << " " >>
    IN  IF /\ n >= 2
           /\ out[1] = cmt[1] \o << "\n" >>
           /\ out[n] = cmt[3] \o << "\n" >>
           /\ \A i \in 2..(n - 1) : StartsWithAt(out[i], 1, pfx)
        THEN [ok |-> TRUE,
              lines |-> [i \in 1..(n - 2) |->
                            SubSeq(out[i + 1], Len(pfx) + 1, Len(out[i + 1]))]]
        ELSE [ok |-> FALSE, lines |-> <<>>]

\* C6: stripping the decoration from the loader's output gives back the lines that
\* were read, for every language tag and every input, also one whose last line has
\* no line break.
C6_RoundTrip ==
    Loaded =>
        /\ StripDecoration(template.value, Style).ok
        /\ StripDecoration(template.value, Style).lines = SourceLines

(***************************************************************************)
(* main(): the command-line driver, from the parsed arguments on.          *)
(***************************************************************************)
DEFAULT_LICENSE == "bsd3"

get_context(a) ==
    [k \in {K_year, K_organization, K_project} |->
        IF k = K_year THEN a.year
        ELSE IF k = K_organization THEN a.organization
        ELSE a.project]

\* license = args.license or DEFAULT_LICENSE
LicenseOf(a) == IF a.license # "" THEN a.license ELSE DEFAULT_LICENSE

\* The template the mode loads: from the path when one is given, else from the bundle.
load_template(a, header, fs, res) ==
    IF a.template_path # <<>>
    THEN load_file_template(a.template_path, a.language, fs)
    ELSE load_package_template(LicenseOf(a), a.language, header, res)

\* "%s.%s" % (args.ofile, lang), as open() resolves it.
OutputPath(a) == abspath(<< a.ofile \o "." \o a.language >>)

\* The file opened with mode "w": created, or truncated.
OpenForWriting(fs, path) ==
    [q \in DOMAIN fs \cup {path} |-> IF q = path THEN <<>> ELSE fs[q]]

\* args.template_path or license, as %s formats it.
TemplateName(a) == IF a.template_path # <<>> THEN a.template_path ELSE << LicenseOf(a) >>

\* What the interpreter writes for an exception nothing catches.
Traceback(exc) == << "Traceback (most recent call last):", exc >>

SorryMsg(a) ==
    << "Sorry, no source headers are available for ",
       IF a.license # "" THEN a.license ELSE "None", ".\n" >>

VarsHeadLine(a) ==
    << "The " >> \o TemplateName(a)
    \o << " license template contains the following variables and defaults:\n" >>

NoVarsLine(a) ==
    << "The " >> \o TemplateName(a) \o << " license template contains no variables.\n" >>

RECURSIVE var_lines(_, _)
\* The loop over var_list: one write for each variable.
var_lines(var_list, ctx) ==
    IF var_list = <<>> THEN <<>>
    ELSE LET v == Head(var_list)
         IN  << IF v \in DOMAIN ctx
                THEN << " ", " " >> \o v \o << " ", "=", " " >> \o ctx[v] \o << "\n" >>
                ELSE << " ", " " >> \o v \o << "\n" >> >>
             \o var_lines(Tail(var_list), ctx)

MainPieces ==
    { placeholder(K_year), placeholder(K_foo), << "x", "\n" >>, << InvalidByte >> }
MainTexts == TextsOver(MainPieces, MaxMainPieces)

OldBytes == << "o", "l", "d" >>

\* The bundle: a body template for each license, a header template for some.
MainBundles(bytes) ==
    { [n \in { resource_name(l, FALSE) : l \in {"bsd3", "mit"} }
             \cup { resource_name(l, TRUE) : l \in H } |-> bytes] :
      H \in SUBSET {"bsd3", "mit"} }

\* LICENSES: the licenses the bundle has a body template for.
LICENSES(res) == { l \in {"bsd3", "mit"} : resource_name(l, FALSE) \in DOMAIN res }

\* The filesystem: the template file and an earlier output file, each there or not.
MainFileSystems(a, bytes) ==
    { [q \in T \cup O |-> IF q \in T THEN bytes ELSE OldBytes] :
      T \in SUBSET { clean_path(<< "t.txt" >>) },
      O \in SUBSET { OutputPath(a) } }

InitMain ==
    /\ pc = "start"
    /\ args \in [ fn : {"main"}, header : BOOLEAN, list_vars : BOOLEAN,
                  template_path : { <<>>, << "t.txt" >> },
                  license : { "", "mit" },
                  language : { "txt", "py", "zz" },
                  ofile : { "stdout", "out" },
                  year : { V_2024 }, organization : { V_Acme }, project : { V_lice } ]
    /\ \E bytes \in MainTexts :
          /\ files \in MainFileSystems(args, bytes)
          /\ resources \in MainBundles(bytes)
    /\ args.license # "" => args.license \in LICENSES(resources)
    /\ template = NoTemplate
    /\ context = EmptyContext
    /\ result = NoResult
    /\ stdout = <<>>
    /\ stderr = <<>>
    /\ exitcode = Running

\* An exception reaches the top: traceback on the error stream, exit status 1.
Uncaught(exc) ==
    /\ stderr' = Append(stderr, Traceback(exc))
    /\ exitcode' = << 1 >>
    /\ pc' = "exit"

Loading(r) ==
    /\ result' = [exc |-> r.exc, msg |-> <<>>, keys |-> <<>>, out |-> NoOut]
    /\ template' = r.template

\* A mutation: the diagnostic for a missing header template goes to standard output.
MainLoadHeader_sorry_to_stdout ==
    /\ pc = "start"
    /\ args.header
    /\ LET r == load_template(args, TRUE, files, resources)
       IN  /\ Loading(r)
           /\ IF r.exc = ""
              THEN pc' = "header_loaded" /\ UNCHANGED <<stdout, stderr, exitcode>>
              ELSE IF args.template_path = <<>> /\ r.exc = "FileNotFoundError"
                   THEN /\ stdout' = Append(stdout, SorryMsg(args))
                        /\ exitcode' = << 1 >>
                        /\ pc' = "exit"
                        /\ UNCHANGED stderr
                   ELSE Uncaught(r.exc) /\ UNCHANGED stdout
    /\ UNCHANGED <<files, resources, args, context>>

\* Header mode, loading: only the bundle lookup's IOError is caught.
MainLoadHeader ==
    /\ pc = "start"
    /\ args.header
    /\ LET r == load_template(args, TRUE, files, resources)
       IN  /\ Loading(r)
           /\ IF r.exc = ""
              THEN pc' = "header_loaded" /\ UNCHANGED <<stderr, exitcode>>
              ELSE IF args.template_path = <<>> /\ r.exc = "FileNotFoundError"
                   THEN /\ stderr' = Append(stderr, SorryMsg(args))
                        /\ exitcode' = << 1 >>
                        /\ pc' = "exit"
                   ELSE Uncaught(r.exc)
    /\ UNCHANGED <<files, resources, args, context, stdout>>

\* Header mode, rendering and writing to standard output.
MainRenderHeader ==
    /\ pc = "header_loaded"
    /\ LET r == generate_license(template, get_context(args))
       IN  /\ template' = r.template
           /\ context' = r.context
           /\ IF r.exc = ""
              THEN /\ stdout' = Append(stdout, r.out.value)
                   /\ result' = [exc |-> "", msg |-> <<>>, keys |-> <<>>,
                                 out |-> [r.out EXCEPT !.closed = TRUE]]
                   /\ exitcode' = << 0 >>
                   /\ pc' = "exit"
                   /\ UNCHANGED stderr
              ELSE /\ result' = [exc |-> r.exc, msg |-> r.msg, keys |-> <<>>, out |-> r.out]
                   /\ Uncaught(r.exc)
                   /\ UNCHANGED stdout
    /\ UNCHANGED <<files, resources, args>>

\* List-vars mode, loading.
MainLoadVars ==
    /\ pc = "start"
    /\ ~args.header
    /\ args.list_vars
    /\ context' = get_context(args)
    /\ LET r == load_template(args, FALSE, files, resources)
       IN  /\ Loading(r)
           /\ IF r.exc = ""
              THEN pc' = "vars_loaded" /\ UNCHANGED <<stderr, exitcode>>
              ELSE Uncaught(r.exc)
    /\ UNCHANGED <<files, resources, args, stdout>>

\* A mutation: every variable is listed by its bare name.
MainListVars_bare ==
    /\ pc = "vars_loaded"
    /\ LET var_list == extract_vars(template.value)
       IN  /\ result' = [result EXCEPT !.keys = var_list]
           /\ stdout' = IF var_list # <<>>
                        THEN stdout \o << VarsHeadLine(args) >>
                                    \o var_lines(var_list, EmptyContext)
                        ELSE Append(stdout, NoVarsLine(args))
    /\ exitcode' = << 0 >>
    /\ pc' = "exit"
    /\ UNCHANGED <<files, resources, args, template, context, stderr>>

\* List-vars mode, listing.
MainListVars ==
    /\ pc = "vars_loaded"
    /\ LET var_list == extract_vars(template.value)
       IN  /\ result' = [result EXCEPT !.keys = var_list]
           /\ stdout' = IF var_list # <<>>
                        THEN stdout \o << VarsHeadLine(args) >> \o var_lines(var_list, context)
                        ELSE Append(stdout, NoVarsLine(args))
    /\ exitcode' = << 0 >>
    /\ pc' = "exit"
    /\ UNCHANGED <<files, resources, args, template, context, stderr>>

\* A mutation: the output file is opened before the template is loaded.
MainLoad_opens_output_first ==
    /\ pc = "start"
    /\ ~args.header
    /\ ~args.list_vars
    /\ files' = IF args.ofile # "stdout" THEN OpenForWriting(files, OutputPath(args))
                ELSE files
    /\ LET r == load_template(args, FALSE, files, resources)
       IN  /\ Loading(r)
           /\ IF r.exc = ""
              THEN pc' = "loaded" /\ UNCHANGED <<stderr, exitcode>>
              ELSE Uncaught(r.exc)
    /\ UNCHANGED <<resources, args, context, stdout>>

\* Generate mode, loading.
MainLoad ==
    /\ pc = "start"
    /\ ~args.header
    /\ ~args.list_vars
    /\ LET r == load_template(args, FALSE, files, resources)
       IN  /\ Loading(r)
           /\ IF r.exc = ""
              THEN pc' = "loaded" /\ UNCHANGED <<stderr, exitcode>>
              ELSE Uncaught(r.exc)
    /\ UNCHANGED <<files, resources, args, context, stdout>>

\* Generate mode, rendering.
MainRender ==
    /\ pc = "loaded"
    /\ LET r == generate_license(template, get_context(args))
       IN  /\ template' = r.template
           /\ context' = r.context
           /\ result' = [exc |-> r.exc, msg |-> r.msg, keys |-> <<>>, out |-> r.out]
           /\ IF r.exc = ""
              THEN pc' = "rendered" /\ UNCHANGED <<stderr, exitcode>>
              ELSE Uncaught(r.exc)
    /\ UNCHANGED <<files, resources, args, stdout>>

\* Generate mode, output to standard output.
MainWriteStdout ==
    /\ pc = "rendered"
    /\ args.ofile = "stdout"
    /\ stdout' = Append(stdout, result.out.value)
    /\ result' = [result EXCEPT !.out.closed = TRUE]
    /\ exitcode' = << 0 >>
    /\ pc' = "exit"
    /\ UNCHANGED <<files, resources, args, template, context, stderr>>

\* Generate mode, output to a file: open(output, "w") ...
MainOpenFile ==
    /\ pc = "rendered"
    /\ args.ofile # "stdout"
    /\ files' = OpenForWriting(files, OutputPath(args))
    /\ pc' = "file_open"
    /\ UNCHANGED <<resources, args, template, context, result, stdout, stderr, exitcode>>

\* ... and f.write(content.getvalue()).
MainWriteFile ==
    /\ pc = "file_open"
    /\ files' = [files EXCEPT ![OutputPath(args)] = result.out.value]
    /\ result' = [result EXCEPT !.out.closed = TRUE]
    /\ exitcode' = << 0 >>
    /\ pc' = "exit"
    /\ UNCHANGED <<resources, args, template, context, stdout, stderr>>

NextMain ==
    \/ MainLoadHeader
    \/ MainRenderHeader
    \/ MainLoadVars
    \/ MainListVars
    \/ MainLoad
    \/ MainRender
    \/ MainWriteStdout
    \/ MainOpenFile
    \/ MainWriteFile

SpecMain == InitMain /\ [][NextMain]_vars

(***************************************************************************)
(* Claims about main() (under SpecMain).                                   *)
(***************************************************************************)
HeaderMode == args.header
ListVarsMode == ~args.header /\ args.list_vars
GenerateMode == ~args.header /\ ~args.list_vars

\* What loading and rendering give for the arguments of the run.
WantedLoad == load_template(args, args.header, files, resources)
WantedText == generate_license(WantedLoad.template, get_context(args))
Renders == WantedLoad.exc = "" /\ WantedText.exc = ""

NoBundledHeader ==
    /\ HeaderMode
    /\ args.template_path = <<>>
    /\ resource_name(LicenseOf(args), TRUE) \notin DOMAIN resources

\* C7: header mode without a template path.  With no bundled header template for
\* the license: a diagnostic on the error stream, nothing on standard output, exit
\* code 1.  With a header template that renders: the rendered text on standard
\* output, exit code 0.
C7_HeaderMode ==
    /\ NoBundledHeader =>
          /\ stdout = <<>>
          /\ pc = "exit" => (exitcode = << 1 >> /\ stderr = << SorryMsg(args) >>)
    /\ (HeaderMode /\ args.template_path = <<>> /\ ~NoBundledHeader /\ Renders
        /\ pc = "exit") =>
          /\ stdout = << WantedText.out.value >>
          /\ exitcode = << 0 >>

\* A run in header mode that ended for want of a bundled header template.
C7_Witness ==
    /\ NoBundledHeader
    /\ pc = "exit"
    /\ exitcode = << 1 >>

\* The output file is as it was before the run: absent, or holding its old bytes.
FileUntouched ==
    \/ OutputPath(args) \notin DOMAIN files
    \/ files[OutputPath(args)] = OldBytes

\* C8: in header mode and in generate mode a run ends with the complete rendered
\* text in its output sink, or with nothing written to standard output and the
\* output file neither created nor truncated; the latter whenever loading or
\* rendering fails.  Before the text is rendered nothing is written at all.
C8_NoPartialOutput ==
    (HeaderMode \/ GenerateMode) =>
        /\ pc \notin { "exit", "file_open" } => (stdout = <<>> /\ FileUntouched)
        /\ pc = "exit" =>
              IF Renders
              THEN IF HeaderMode \/ args.ofile = "stdout"
                   THEN stdout = << WantedText.out.value >> /\ FileUntouched
                   ELSE /\ stdout = <<>>
                        /\ OutputPath(args) \in DOMAIN files
                        /\ files[OutputPath(args)] = WantedText.out.value
              ELSE stdout = <<>> /\ FileUntouched

\* A run in generate mode towards an existing output file that ended because the
\* template names a variable the context lacks.
C8_Witness ==
    /\ GenerateMode
    /\ args.ofile # "stdout"
    /\ pc = "exit"
    /\ result.exc = "ValueError"
    /\ result.msg = MissingMsg(K_foo)
    /\ OutputPath(args) \in DOMAIN files

\* C9: list-vars mode prints one line for every variable extract_vars returns, in
\* its order: "name = value" for a key of the context, the bare name otherwise;
\* with no variable it prints only the "contains no variables" message; it
\* substitutes nothing and exits with code 0.
C9_ListVars ==
    (ListVarsMode /\ pc = "exit" /\ result.exc = "") =>
        LET vl == extract_vars(template.value)
            ctx == get_context(args)
        IN  /\ exitcode = << 0 >>
            /\ template = WantedLoad.template
            /\ IF vl = <<>>
               THEN stdout = << NoVarsLine(args) >>
               ELSE /\ Len(stdout) = Len(vl) + 1
                    /\ stdout[1] = VarsHeadLine(args)
                    /\ \A i \in 1..Len(vl) :
                          stdout[i + 1] =
                              IF vl[i] \in DOMAIN ctx
                              THEN << " ", " " >> \o vl[i] \o << " ", "=", " " >>
                                   \o ctx[vl[i]] \o << "\n" >>
                              ELSE << " ", " " >> \o vl[i] \o << "\n" >>

\* A listing with one variable the context holds and one it lacks.
C9_Witness ==
    /\ ListVarsMode
    /\ pc = "exit"
    /\ result.exc = ""
    /\ extract_vars(template.value) = << K_foo, K_year >>
    /\ Len(stdout) = 3
====
